---- MODULE Spec2Model ----
(***************************************************************************)
(* Model of the LinkedIn followers scripts:                                *)
(*   linkedin_followers_complete.py  (download, reduce, export)            *)
(*   process_existing_followers.py   (reduce, export)                      *)
(*                                                                         *)
(* JSON values are tagged records:                                         *)
(*   scalars  [t |-> "str" | "int" | "bool" | "null", v |-> literal]       *)
(*   arrays   [t |-> "list", items |-> sequence of values]                 *)
(*   objects  [t |-> "dict", d |-> function from key to value]             *)
(* Python dicts that the scripts build themselves (rows, the profile map)  *)
(* are plain functions; the empty dict {} is the empty function << >>.     *)
(***************************************************************************)
EXTENDS Integers, Sequences, FiniteSets, TLC

VARIABLES
    variant,        \* which script runs: "complete" or "existing"
    files,          \* the snapshot directory: file name -> file content
    csv,            \* the output file followers.csv
    csv0,           \* the output file as it was before the run
    pc,             \* position of the running script
    page,           \* download_all_followers: loop variable
    downloaded_files, \* download_all_followers: names saved so far
    page_files,     \* the Reducer's sorted list of file names
    idx,            \* the Reducer's loop: files handled so far
    all_profiles,   \* the Reducer's cumulative profile mapping
    all_rows,       \* the Reducer's output sequence
    log,            \* diagnostics printed so far (as a set of messages)
    input,          \* argument of a directly called function
    output          \* its return value

vars == <<variant, files, csv, csv0, pc, page, downloaded_files, page_files,
          idx, all_profiles, all_rows, log, input, output>>

----------------------------------------------------------------------------
(* JSON values and the Python operations the scripts apply to them *)

Str(s)  == [t |-> "str",  v |-> s]
Num(s)  == [t |-> "int",  v |-> s]
Bool(s) == [t |-> "bool", v |-> s]
Null    == [t |-> "null", v |-> ""]
List(q) == [t |-> "list", items |-> q]
Dict(f) == [t |-> "dict", d |-> f]

EmptyDict == << >>

\* bool(x)
Truthy(x) ==
    CASE x.t = "str"  -> x.v # ""
      [] x.t = "int"  -> x.v # "0"
      [] x.t = "bool" -> x.v = "true"
      [] x.t = "null" -> FALSE
      [] x.t = "list" -> x.items # << >>
      [] x.t = "dict" -> DOMAIN x.d # {}

\* repr(x) of a scalar, as it appears inside str() of a list
Repr(x) ==
    CASE x.t = "str"  -> "'" \o x.v \o "'"
      [] x.t = "int"  -> x.v
      [] x.t = "bool" -> (IF x.v = "true" THEN "True" ELSE "False")
      [] x.t = "null" -> "None"
      [] OTHER        -> "..."

RECURSIVE JoinRepr(_)
JoinRepr(q) ==
    IF q = << >> THEN ""
    ELSE IF Len(q) = 1 THEN Repr(q[1])
    ELSE Repr(q[1]) \o ", " \o JoinRepr(Tail(q))

\* str(x), also what an f-string substitutes for {x}
StrOf(x) ==
    CASE x.t = "str"  -> x.v
      [] x.t = "int"  -> x.v
      [] x.t = "bool" -> (IF x.v = "true" THEN "True" ELSE "False")
      [] x.t = "null" -> "None"
      [] x.t = "list" -> "[" \o JoinRepr(x.items) \o "]"
      [] x.t = "dict" -> (IF DOMAIN x.d = {} THEN "{}" ELSE "{...}")

\* `k in x` raises TypeError when x is not a container
InRaises(x) == x.t \in {"int", "bool", "null"}

\* `k in x` for a container x.  For a string x it is the substring test; the
\* strings of this model are short tokens, so it reduces to equality.
PyIn(k, x) ==
    CASE x.t = "dict" -> k \in DOMAIN x.d
      [] x.t = "list" -> \E n \in 1..Len(x.items) : x.items[n] = Str(k)
      [] x.t = "str"  -> x.v = k
      [] OTHER        -> FALSE

\* x[k] with a string key k raises unless x is a dict holding k
SubscriptRaises(x, k) == x.t # "dict" \/ k \notin DOMAIN x.d

\* x.get(k, default) on a dict
Get(f, k, default) == IF k \in DOMAIN f THEN f[k] ELSE default

\* hash(x) raises TypeError for lists and dicts
Unhashable(x) == x.t \in {"list", "dict"}

RECURSIVE SetToSeq(_)
SetToSeq(S) ==
    IF S = {} THEN << >>
    ELSE LET e == CHOOSE e \in S : TRUE IN <<e>> \o SetToSeq(S \ {e})

\* `for e in x` raises TypeError when x is not iterable
IterRaises(x) == x.t \in {"int", "bool", "null"}

\* the items `for e in x` visits: the items of a list, the keys of a dict;
\* a string yields its characters, here the token itself when non-empty
Iterate(x) ==
    CASE x.t = "list" -> x.items
      [] x.t = "dict" -> [n \in 1..Cardinality(DOMAIN x.d) |->
                             Str(SetToSeq(DOMAIN x.d)[n])]
      [] x.t = "str"  -> (IF x.v = "" THEN << >> ELSE <<Str(x.v)>>)
      [] OTHER        -> << >>

\* len(x) raises TypeError for scalars other than strings
LenRaises(x) == x.t \in {"int", "bool", "null"}

----------------------------------------------------------------------------
(* build_follower_row *)

fieldnames == <<"firstName", "lastName", "headline", "publicIdentifier",
                "linkedinUrl", "followedAt.text",
                "followedAt.accessibilityText", "entityUrn">>

EmptyRow == << >>

\* linkedin_followers_complete.py: the row's identifier falls back to the
\* element's own identifier
entityUrn_complete(profile, element) ==
    Get(profile, "entityUrn", Get(element.d, "entityUrn", Str("")))

\* process_existing_followers.py: no fallback
entityUrn_existing(profile, element) ==
    Get(profile, "entityUrn", Str(""))

\* followed_text without the truthiness test
followed_text_AlwaysStr(followed_at) ==
    IF followed_at.t = "dict"
    THEN Get(followed_at.d, "text", Str(""))
    ELSE Str(StrOf(followed_at))

followed_text(followed_at) ==
    IF followed_at.t = "dict"
    THEN Get(followed_at.d, "text", Str(""))
    ELSE IF Truthy(followed_at) THEN Str(StrOf(followed_at)) ELSE Str("")

followed_accessibility(followed_at) ==
    IF followed_at.t = "dict"
    THEN Get(followed_at.d, "accessibilityText", Str(""))
    ELSE Str("")

\* linkedin_url without the test for a public identifier
linkedin_url_Unguarded(public_identifier) ==
    Str("https://www.linkedin.com/in/" \o StrOf(public_identifier) \o "/")

linkedin_url(public_identifier) ==
    IF Truthy(public_identifier)
    THEN Str("https://www.linkedin.com/in/" \o StrOf(public_identifier) \o "/")
    ELSE Str("")

\* the profile reference of an element, None when there is none; only
\* evaluated when the navigation does not raise
profile_urn_of(element) ==
    IF PyIn("followerV2", element) /\ PyIn("*profile", element.d["followerV2"])
    THEN element.d["followerV2"].d["*profile"]
    ELSE Null

\* the exceptions the body of build_follower_row can raise; each is caught by
\* its try/except, which returns {}
RowRaises(element) ==
    \/ InRaises(element)                       \* "followerV2" in element
    \/ /\ PyIn("followerV2", element)
       /\ \/ SubscriptRaises(element, "followerV2")
          \/ InRaises(element.d["followerV2"]) \* "*profile" in ...
          \/ /\ PyIn("*profile", element.d["followerV2"])
             /\ SubscriptRaises(element.d["followerV2"], "*profile")
    \/ element.t # "dict"                      \* element.get
    \/ /\ Truthy(profile_urn_of(element))      \* profile_map.get(profile_urn)
       /\ Unhashable(profile_urn_of(element))

build_follower_row(v, element, profile_map) ==
    IF RowRaises(element) THEN EmptyRow
    ELSE
      LET profile_urn == profile_urn_of(element)
          profile == (IF Truthy(profile_urn)
                      THEN Get(profile_map, profile_urn, Dict(EmptyDict))
                      ELSE Dict(EmptyDict)).d
          followed_at == Get(element.d, "followedAt", Dict(EmptyDict))
          public_identifier == Get(profile, "publicIdentifier", Str(""))
      IN  [k \in {fieldnames[n] : n \in 1..Len(fieldnames)} |->
            CASE k = "firstName" -> Get(profile, "firstName", Str(""))
              [] k = "lastName"  -> Get(profile, "lastName", Str(""))
              [] k = "headline"  -> Get(profile, "headline", Str(""))
              [] k = "publicIdentifier" -> public_identifier
              [] k = "linkedinUrl" -> linkedin_url(public_identifier)
              [] k = "followedAt.text" -> followed_text(followed_at)
              [] k = "followedAt.accessibilityText" ->
                     followed_accessibility(followed_at)
              [] k = "entityUrn" ->
                     IF v = "complete"
                     THEN entityUrn_complete(profile, element)
                     ELSE entityUrn_existing(profile, element)]

----------------------------------------------------------------------------
(* extract_profiles_from_page *)

\* dict.update / item assignment
Put(f, k, val) == [x \in DOMAIN f \cup {k} |-> IF x = k THEN val ELSE f[x]]

\* Update that keeps the first value seen for a key
Update_KeepFirst(f, g) ==
    [x \in DOMAIN f \cup DOMAIN g |-> IF x \in DOMAIN f THEN f[x] ELSE g[x]]

Update(f, g) ==
    [x \in DOMAIN f \cup DOMAIN g |-> IF x \in DOMAIN g THEN g[x] ELSE f[x]]

\* the entry passes `"entityUrn" in profile and "publicIdentifier" in profile`
IsProfile(profile) ==
    PyIn("entityUrn", profile) /\ PyIn("publicIdentifier", profile)

\* one pass of the loop body raises: the `in` test on a scalar, the subscript
\* on a non-dict, or an unhashable key
EntryRaises(profile) ==
    \/ InRaises(profile)
    \/ /\ IsProfile(profile)
       /\ \/ SubscriptRaises(profile, "entityUrn")
          \/ Unhashable(profile.d["entityUrn"])

\* extract_profiles_from_page has no try/except: these exceptions propagate
ProfilesRaises(page_data) ==
    \/ InRaises(page_data)
    \/ /\ PyIn("included", page_data)
       /\ \/ SubscriptRaises(page_data, "included")
          \/ IterRaises(page_data.d["included"])
          \/ \E n \in 1..Len(Iterate(page_data.d["included"])) :
                EntryRaises(Iterate(page_data.d["included"])[n])

RECURSIVE CollectProfiles(_, _)
CollectProfiles(q, profiles) ==
    IF q = << >> THEN profiles
    ELSE CollectProfiles(Tail(q),
            IF IsProfile(Head(q))
            THEN Put(profiles, Head(q).d["entityUrn"], Head(q))
            ELSE profiles)

\* the mapping returned when nothing raises
extract_profiles_from_page(page_data) ==
    IF PyIn("included", page_data)
    THEN CollectProfiles(Iterate(page_data.d["included"]), EmptyDict)
    ELSE EmptyDict

----------------------------------------------------------------------------
(* extract_elements_from_page *)

CONTAINER == "organizationDashFollowersByOrganizationalPage"

\* the navigation to main_data raises
NavigateRaises(page_data) ==
    \/ InRaises(page_data)
    \/ /\ PyIn("data", page_data)
       /\ \/ SubscriptRaises(page_data, "data")
          \/ InRaises(page_data.d["data"])
          \/ /\ PyIn("data", page_data.d["data"])
             /\ SubscriptRaises(page_data.d["data"], "data")

\* the depth is chosen by the presence of the "data" keys alone
main_data(page_data) ==
    IF PyIn("data", page_data) /\ PyIn("data", page_data.d["data"])
    THEN page_data.d["data"].d["data"]
    ELSE IF PyIn("data", page_data)
    THEN page_data.d["data"]
    ELSE page_data

FindRaises(main) ==
    \/ InRaises(main)
    \/ /\ PyIn(CONTAINER, main)
       /\ \/ SubscriptRaises(main, CONTAINER)
          \/ InRaises(main.d[CONTAINER])
          \/ /\ PyIn("elements", main.d[CONTAINER])
             /\ SubscriptRaises(main.d[CONTAINER], "elements")

\* elements stays [] when anything raises inside the try block
extract_elements_from_page(page_data) ==
    IF NavigateRaises(page_data) THEN List(<< >>)
    ELSE IF FindRaises(main_data(page_data)) THEN List(<< >>)
    ELSE IF /\ PyIn(CONTAINER, main_data(page_data))
            /\ PyIn("elements", main_data(page_data).d[CONTAINER])
    THEN main_data(page_data).d[CONTAINER].d["elements"]
    ELSE List(<< >>)

----------------------------------------------------------------------------
(* file names and their order *)

TOTAL_FOLLOWERS == 2417
COUNT_PER_PAGE == 50
num_pages == (TOTAL_FOLLOWERS + COUNT_PER_PAGE - 1) \div COUNT_PER_PAGE

\* str(page) of a non-negative integer
DigitChars == <<"0", "1", "2", "3", "4", "5", "6", "7", "8", "9">>

RECURSIVE DigitString(_)
DigitString(n) == IF n < 10 THEN DigitChars[n + 1]
                  ELSE DigitString(n \div 10) \o DigitChars[(n % 10) + 1]

\* save_page_data: f"followers_page_{page}.json"
FileName(p) == "followers_page_" \o DigitString(p) \o ".json"

\* the code points of the characters of a file name: those of the prefix,
\* of the decimal digits and of the suffix
Prefix == <<102, 111, 108, 108, 111, 119, 101, 114, 115, 95,
            112, 97, 103, 101, 95>>          \* "followers_page_"
Suffix == <<46, 106, 115, 111, 110>>          \* ".json"

RECURSIVE Digits(_)
Digits(n) == IF n < 10 THEN <<48 + n>>
             ELSE Digits(n \div 10) \o <<48 + (n % 10)>>

CodePoints(name) ==
    LET p == CHOOSE p \in 0..(num_pages - 1) : FileName(p) = name
    IN  Prefix \o Digits(p) \o Suffix

\* Python's str comparison: by code point, a proper prefix first
RECURSIVE LexLessCodes(_, _)
LexLessCodes(a, b) ==
    IF b = << >> THEN FALSE
    ELSE IF a = << >> THEN TRUE
    ELSE IF Head(a) # Head(b) THEN Head(a) < Head(b)
    ELSE LexLessCodes(Tail(a), Tail(b))

LexLess(a, b) == LexLessCodes(CodePoints(a), CodePoints(b))

\* sorted(glob.glob("followers_page_*.json"))
RECURSIVE Sorted(_)
Sorted(S) ==
    IF S = {} THEN << >>
    ELSE LET m == CHOOSE m \in S : \A o \in S \ {m} : LexLess(m, o)
         IN  <<m>> \o Sorted(S \ {m})

----------------------------------------------------------------------------
(* write_csv *)

NoFile == [t |-> "absent"]
StaleFile == [t |-> "file", header |-> fieldnames,
              rows |-> <<[k \in {"firstName"} |-> Str("stale")]>>]
IOOutcomes == {"ok", "open_fails", "write_fails"}

\* write_csv without the test for an empty list of rows
write_csv_NoGuard(file, rows, io) ==
    IF io = "open_fails" THEN <<FALSE, file, "Error writing CSV">>
    ELSE IF io = "write_fails"
    THEN <<FALSE, [t |-> "file", header |-> << >>, rows |-> << >>],
           "Error writing CSV">>
    ELSE <<TRUE, [t |-> "file", header |-> fieldnames, rows |-> rows],
           "Successfully wrote rows">>

\* returns <<return value, the file afterwards, the message printed>>
write_csv(file, rows, io) ==
    IF rows = << >> THEN <<FALSE, file, "No rows to write">>
    ELSE IF io = "open_fails" THEN <<FALSE, file, "Error writing CSV">>
    ELSE IF io = "write_fails"
    THEN <<FALSE, [t |-> "file", header |-> << >>, rows |-> << >>],
           "Error writing CSV">>
    ELSE <<TRUE, [t |-> "file", header |-> fieldnames, rows |-> rows],
           "Successfully wrote rows">>

----------------------------------------------------------------------------
(* the snapshots of the model *)

Unreadable == [t |-> "unreadable"]   \* open() or json.load() raises

Ref(urn) == Dict("*profile" :> urn)

P1a == Dict("entityUrn" :> Str("urn:1") @@ "publicIdentifier" :> Str("alice")
            @@ "firstName" :> Str("Alice") @@ "lastName" :> Str("Ames")
            @@ "headline" :> Str("Dev"))
P1b == Dict("entityUrn" :> Str("urn:1") @@ "publicIdentifier" :> Str("alicia")
            @@ "firstName" :> Str("Alicia"))
P2  == Dict("entityUrn" :> Str("urn:2") @@ "publicIdentifier" :> Str("")
            @@ "firstName" :> Str("Bob"))
P3  == Dict("entityUrn" :> Str("urn:3") @@ "publicIdentifier" :> Null
            @@ "headline" :> Str("Ops"))
Company == Dict("entityUrn" :> Str("urn:c") @@ "name" :> Str("Acme"))

E1 == Dict("followerV2" :> Ref(Str("urn:1"))
           @@ "followedAt" :> Dict("text" :> Str("3d")
                                   @@ "accessibilityText" :> Str("3 days ago"))
           @@ "entityUrn" :> Str("urn:f1"))
E2 == Dict("followerV2" :> Ref(Str("urn:2")) @@ "followedAt" :> Str("1w"))
E3 == Dict("followerV2" :> Ref(Str("urn:3")) @@ "entityUrn" :> Str("urn:f3"))
E9 == Dict("followerV2" :> Ref(Str("urn:9")) @@ "entityUrn" :> Str("urn:f9"))
EScalar == Num("5")                        \* an element that is no object
EBadRef == Dict("followerV2" :> Null @@ "followedAt" :> Str("2d"))

Container(elements) == Dict("elements" :> elements)

\* two levels of "data"
SnapA == Dict("included" :> List(<<P1a, Company, P2>>)
              @@ "data" :> Dict("data" :> Dict(CONTAINER :>
                                    Container(List(<<E1, E2>>)))))
\* one level; redefines urn:1, references it again, and a profile of a
\* later page
SnapB == Dict("included" :> List(<<P1b>>)
              @@ "data" :> Dict(CONTAINER :> Container(List(<<E1, E3>>))))
\* no wrapper, no side-table of its own, a malformed element
SnapC == Dict(CONTAINER :> Container(List(<<E9, EScalar, E1, EBadRef>>)))
\* a side-table with profiles and duplicates, no elements
SnapD == Dict("included" :> List(<<P3, P1b, P1a>>)
              @@ "data" :> Dict("data" :> Dict(EmptyDict)))
SnapEmpty == Dict(EmptyDict)
SnapList == List(<< >>)                    \* top level is an array
SnapScalar == Num("5")                     \* top level is a number
SnapIncludedNull == Dict("included" :> Null
                         @@ CONTAINER :> Container(List(<<E1>>)))
SnapEntryNull == Dict("included" :> List(<<P2, Null>>)
                      @@ CONTAINER :> Container(List(<<E2>>)))
SnapElementsNull == Dict("included" :> List(<<P3>>)
                         @@ "data" :> Dict(CONTAINER :> Container(Null)))

Snapshots == {SnapA, SnapB, SnapC, SnapD, SnapEmpty, SnapList, SnapScalar,
              SnapIncludedNull, SnapEntryNull, SnapElementsNull}

Contents == Snapshots \cup {Unreadable}

MaxPage == 2    \* the directory holds pages among 0..MaxPage
MaxSaved == 2   \* pages the Fetcher saves in one run

Directories ==
    UNION {[{FileName(p) : p \in P} -> Contents] : P \in SUBSET (0..MaxPage)}

----------------------------------------------------------------------------
(* the scripts *)

NoFilesMessage(v) ==
    IF v = "complete" THEN "No downloaded page files found"
    ELSE "No files found matching pattern"

\* what a request returns: {} when it failed, or a page
Responses == {Dict(EmptyDict),
              Dict(CONTAINER :> Container(List(<<E2>>))),
              Dict("included" :> List(<<Company>>))}

\* download_all_followers: one pass of the loop.  The response is a JSON
\* value, {} on a failed request; a falsy response is not saved, and
\* save_page_data returns "" when the file cannot be written.
DownloadPage ==
    /\ pc = "download"
    /\ page < num_pages
    /\ \E data \in Responses : \E saved \in BOOLEAN :
         IF Truthy(data) /\ saved /\ Len(downloaded_files) < MaxSaved
         THEN /\ files' = Put(files, FileName(page), data)
              /\ downloaded_files' = Append(downloaded_files, FileName(page))
         ELSE UNCHANGED <<files, downloaded_files>>
    /\ page' = page + 1
    /\ UNCHANGED <<variant, csv, csv0, pc, page_files, idx, all_profiles,
                   all_rows, log, input, output>>

\* main of linkedin_followers_complete.py after the download
DownloadDone ==
    /\ pc = "download"
    /\ page = num_pages
    /\ IF downloaded_files = << >>
       THEN /\ pc' = "done"
            /\ log' = log \cup {"No data downloaded. Exiting."}
       ELSE /\ pc' = "reduce"
            /\ UNCHANGED log
    /\ UNCHANGED <<variant, files, csv, csv0, page, downloaded_files,
                   page_files, idx, all_profiles, all_rows, input, output>>

\* process_downloaded_pages / process_existing_pages up to the loop
Glob ==
    /\ pc = "reduce"
    /\ page_files' = Sorted(DOMAIN files)
    /\ IF DOMAIN files = {}
       THEN /\ pc' = "reduced"
            /\ log' = log \cup {NoFilesMessage(variant)}
       ELSE /\ pc' = "loop"
            /\ UNCHANGED log
    /\ UNCHANGED <<variant, files, csv, csv0, page, downloaded_files, idx,
                   all_profiles, all_rows, input, output>>

\* BuildRows without the `if row` test
RECURSIVE BuildRows_KeepEmpty(_, _, _)
BuildRows_KeepEmpty(v, q, profile_map) ==
    IF q = << >> THEN << >>
    ELSE <<build_follower_row(v, Head(q), profile_map)>>
         \o BuildRows_KeepEmpty(v, Tail(q), profile_map)

\* the rows of one page: build_follower_row for each element, `if row`
RECURSIVE BuildRows(_, _, _)
BuildRows(v, q, profile_map) ==
    IF q = << >> THEN << >>
    ELSE LET row == build_follower_row(v, Head(q), profile_map)
         IN  (IF DOMAIN row # {} THEN <<row>> ELSE << >>)
             \o BuildRows(v, Tail(q), profile_map)

AfterPage == IF idx + 1 = Len(page_files) THEN "reduced" ELSE "loop"

\* ProcessPage with the rows of a page built before its profiles are merged
ProcessPage_RowsBeforeMerge ==
    /\ pc = "loop"
    /\ idx < Len(page_files)
    /\ LET page_data == files[page_files[idx + 1]]
           elements == extract_elements_from_page(page_data)
           merged == Update(all_profiles, extract_profiles_from_page(page_data))
       IN  IF page_data = Unreadable
           THEN /\ idx' = idx + 1
                /\ pc' = AfterPage
                /\ log' = log \cup {"Error reading"}
                /\ UNCHANGED <<all_profiles, all_rows>>
           ELSE IF ProfilesRaises(page_data)
           THEN /\ pc' = "raised"
                /\ UNCHANGED <<idx, all_profiles, all_rows, log>>
           ELSE IF LenRaises(elements)
           THEN /\ pc' = "raised"
                /\ all_profiles' = merged
                /\ UNCHANGED <<idx, all_rows, log>>
           ELSE /\ all_profiles' = merged
                /\ all_rows' = all_rows \o
                       BuildRows(variant, Iterate(elements), all_profiles)
                /\ idx' = idx + 1
                /\ pc' = AfterPage
                /\ UNCHANGED log
    /\ UNCHANGED <<variant, files, csv, csv0, page, downloaded_files,
                   page_files, input, output>>

\* one pass of the loop over page_files
ProcessPage ==
    /\ pc = "loop"
    /\ idx < Len(page_files)
    /\ LET page_data == files[page_files[idx + 1]]
           elements == extract_elements_from_page(page_data)
           merged == Update(all_profiles, extract_profiles_from_page(page_data))
       IN  IF page_data = Unreadable
           THEN /\ idx' = idx + 1          \* continue
                /\ pc' = AfterPage
                /\ log' = log \cup {"Error reading"}
                /\ UNCHANGED <<all_profiles, all_rows>>
           ELSE IF ProfilesRaises(page_data)
           THEN /\ pc' = "raised"          \* nothing catches it
                /\ UNCHANGED <<idx, all_profiles, all_rows, log>>
           ELSE IF LenRaises(elements)     \* len(elements) in the print
           THEN /\ pc' = "raised"
                /\ all_profiles' = merged
                /\ UNCHANGED <<idx, all_rows, log>>
           ELSE /\ all_profiles' = merged
                /\ all_rows' = all_rows \o
                       BuildRows(variant, Iterate(elements), merged)
                /\ idx' = idx + 1
                /\ pc' = AfterPage
                /\ UNCHANGED log
    /\ UNCHANGED <<variant, files, csv, csv0, page, downloaded_files,
                   page_files, input, output>>

\* main after the Reducer returned
MainExport ==
    /\ pc = "reduced"
    /\ IF all_rows = << >>
       THEN /\ log' = log \cup {"No data found to process"}
            /\ UNCHANGED csv
       ELSE \E io \in IOOutcomes :
              LET r == write_csv(csv, all_rows, io)
              IN  /\ csv' = r[2]
                  /\ log' = log \cup {r[3]} \cup
                       {IF r[1] THEN "Success" ELSE "Failed to create CSV file"}
    /\ pc' = "done"
    /\ UNCHANGED <<variant, files, csv0, page, downloaded_files, page_files,
                   idx, all_profiles, all_rows, input, output>>

Idle == [t |-> "none"]

\* the Reducer and the export over a directory of snapshots; the complete
\* script arrives here with at least one page it has just saved
Init ==
    /\ variant \in {"complete", "existing"}
    /\ files \in Directories
    /\ variant = "complete" =>
         \E n \in DOMAIN files : files[n] # Unreadable /\ Truthy(files[n])
    /\ csv \in {NoFile, StaleFile}
    /\ csv0 = csv
    /\ pc = "reduce"
    /\ page = num_pages
    /\ downloaded_files = << >>
    /\ page_files = << >>
    /\ idx = 0
    /\ all_profiles = EmptyDict
    /\ all_rows = << >>
    /\ log = {}
    /\ input = Idle
    /\ output = Idle

Next == Glob \/ ProcessPage \/ MainExport

Spec == Init /\ [][Next]_vars

\* the complete script from an empty directory: download, reduce, export
InitOrder ==
    /\ variant = "complete"
    /\ files = EmptyDict
    /\ csv = NoFile
    /\ csv0 = csv
    /\ pc = "download"
    /\ page = 0
    /\ downloaded_files = << >>
    /\ page_files = << >>
    /\ idx = 0
    /\ all_profiles = EmptyDict
    /\ all_rows = << >>
    /\ log = {}
    /\ input = Idle
    /\ output = Idle

NextOrder == DownloadPage \/ DownloadDone \/ Glob \/ ProcessPage \/ MainExport

SpecOrder == InitOrder /\ [][NextOrder]_vars

----------------------------------------------------------------------------
(* direct calls of build_follower_row and extract_elements_from_page *)

OptionalKey(k, vals) == {EmptyDict} \cup {k :> x : x \in vals}

FollowerV2Values ==
    {Null, Num("5"), Str("x"), List(<<Str("*profile")>>), Dict(EmptyDict),
     Ref(Str("urn:1")), Ref(Str("urn:3")), Ref(Str("urn:9")), Ref(Str("")),
     Ref(Null), Ref(List(<<Num("1")>>))}

FollowedAtValues ==
    {Dict(EmptyDict), Dict("text" :> Str("3d")),
     Dict("accessibilityText" :> Str("3 days ago")),
     Dict("text" :> Str("3d") @@ "accessibilityText" :> Str("3 days ago")),
     Dict("text" :> Null),
     Str("1w"), Str(""), Num("0"), Num("5"), Bool("false"), Bool("true"),
     Null, List(<< >>), List(<<Num("1"), Str("a")>>)}

RowElements ==
    {Dict(a @@ b @@ c) :
        a \in OptionalKey("followerV2", FollowerV2Values),
        b \in OptionalKey("followedAt", FollowedAtValues),
        c \in OptionalKey("entityUrn", {Str("urn:f1"), Str("")})}
    \cup {Num("5"), Null, Str("x"), List(<< >>), List(<<Str("followerV2")>>)}

RowMaps ==
    {EmptyDict,
     Str("urn:1") :> P1a @@ Str("urn:2") :> P2,
     Str("urn:1") :> P1b @@ Str("urn:3") :> P3}

Elems(tag) == List(<<Dict("entityUrn" :> Str(tag))>>)

\* what may sit under the container key at the depth named tag
ContainerValues(tag) ==
    {Container(Elems(tag)), Dict(EmptyDict), Null, Container(Null)}

Depth2Values ==
    {Null, Num("5")}
    \cup {Dict(c) : c \in OptionalKey(CONTAINER, ContainerValues("d2"))}

Depth1Values ==
    {Null, Num("5"), List(<<Str("data")>>)}
    \cup {Dict(a @@ c) : a \in OptionalKey("data", Depth2Values),
                         c \in OptionalKey(CONTAINER, ContainerValues("d1"))}

PageShapes ==
    {Null, Num("5"), Str("x"), List(<< >>), List(<<Str("data")>>)}
    \cup {Dict(a @@ c) : a \in OptionalKey("data", Depth1Values),
                         c \in OptionalKey(CONTAINER, ContainerValues("d0"))}

CallBuildRow ==
    /\ pc = "call"
    /\ input.fn = "build_follower_row"
    /\ output' = build_follower_row(variant, input.element, input.profile_map)
    /\ pc' = "returned"
    /\ UNCHANGED <<variant, files, csv, csv0, page, downloaded_files,
                   page_files, idx, all_profiles, all_rows, log, input>>

CallExtractElements ==
    /\ pc = "call"
    /\ input.fn = "extract_elements_from_page"
    /\ output' = extract_elements_from_page(input.page_data)
    /\ pc' = "returned"
    /\ UNCHANGED <<variant, files, csv, csv0, page, downloaded_files,
                   page_files, idx, all_profiles, all_rows, log, input>>

InitCall ==
    /\ variant \in {"complete", "existing"}
    /\ input \in
         {[fn |-> "build_follower_row", element |-> e, profile_map |-> m] :
             e \in RowElements, m \in RowMaps}
         \cup {[fn |-> "extract_elements_from_page", page_data |-> d] :
                 d \in PageShapes}
    /\ output = Idle
    /\ pc = "call"
    /\ files = EmptyDict
    /\ csv = NoFile
    /\ csv0 = NoFile
    /\ page = 0
    /\ downloaded_files = << >>
    /\ page_files = << >>
    /\ idx = 0
    /\ all_profiles = EmptyDict
    /\ all_rows = << >>
    /\ log = {}

NextCall == CallBuildRow \/ CallExtractElements

SpecCall == InitCall /\ [][NextCall]_vars

----------------------------------------------------------------------------
(* what the snapshots hold, stated from the files alone *)

RECURSIVE SumTo(_, _)
SumTo(n, f) == IF n = 0 THEN 0 ELSE f[n] + SumTo(n - 1, f)

\* the file the Reducer handles in position n
Snapshot(n) == files[page_files[n]]

\* the relationship elements of a snapshot, as the Reducer finds them
ElementsOf(content) ==
    IF content = Unreadable THEN << >>
    ELSE Iterate(extract_elements_from_page(content))

\* an element from which a row can be built: an object whose followerV2, if
\* any, can be searched for "*profile" and whose reference can be looked up
WellFormed(e) ==
    /\ e.t = "dict"
    /\ "followerV2" \in DOMAIN e.d =>
         LET fv == e.d["followerV2"]
         IN  \/ fv.t = "dict" /\ "*profile" \notin DOMAIN fv.d
             \/ fv.t = "dict" /\ "*profile" \in DOMAIN fv.d
                  /\ (fv.d["*profile"].t \in {"list", "dict"}
                        => ~Truthy(fv.d["*profile"]))
             \/ fv.t = "str" /\ fv.v # "*profile"
             \/ fv.t = "list"
                  /\ \A n \in 1..Len(fv.items) : fv.items[n] # Str("*profile")

CountElements(content) == Len(ElementsOf(content))

CountWellFormed(content) ==
    Cardinality({n \in 1..Len(ElementsOf(content)) :
                    WellFormed(ElementsOf(content)[n])})

\* the side-table entries of a snapshot that are profiles
SideTable(content) ==
    IF content # Unreadable /\ content.t = "dict"
       /\ "included" \in DOMAIN content.d /\ content.d["included"].t = "list"
    THEN content.d["included"].items
    ELSE << >>

DefinesAt(content, n, urn) ==
    LET e == SideTable(content)[n]
    IN  /\ e.t = "dict"
        /\ {"entityUrn", "publicIdentifier"} \subseteq DOMAIN e.d
        /\ e.d["entityUrn"] = urn

Defines(content, urn) ==
    \E n \in 1..Len(SideTable(content)) : DefinesAt(content, n, urn)

AllUrns == {Str("urn:1"), Str("urn:2"), Str("urn:3"), Str("urn:9"),
            Str("urn:c"), Str(""), Null}

----------------------------------------------------------------------------
(* C1 *)

\* C1 (as claimed): when the Reducer has returned, the number of rows equals
\* the number of relationship elements found across all snapshot files, also
\* when an element is malformed.
C1_RowsEqualElements ==
    pc \in {"reduced", "done"} =>
        Len(all_rows) =
            SumTo(Len(page_files),
                  [n \in 1..Len(page_files) |-> CountElements(Snapshot(n))])

\* C1 (amended): at every point of the loop the number of rows equals the
\* number of well-formed elements in the snapshots handled so far: one row
\* per such element, none collapsed, and a malformed element is dropped.
C1_RowsEqualWellFormedElements ==
    /\ idx <= Len(page_files)
    /\ Len(all_rows) =
         SumTo(idx, [n \in 1..idx |-> CountWellFormed(Snapshot(n))])
    /\ pc \in {"reduced", "done"} => idx = Len(page_files)

\* a finished run in which a malformed element was dropped and one profile
\* was referenced from two pages
C1_Witness ==
    /\ pc = "done"
    /\ idx = 3
    /\ Snapshot(1) = SnapA /\ Snapshot(2) = SnapC /\ Snapshot(3) = SnapB
    /\ Len(all_rows) = 6

----------------------------------------------------------------------------
(* C2 *)

\* C2: while the loop runs and after it, the keys of the cumulative profile
\* mapping are exactly the identifiers of the profiles in the side-tables of
\* the snapshots handled so far, and each maps to the last entry of the
\* last such snapshot that defines it.
C2_CumulativeProfiles ==
    pc \in {"loop", "reduced", "done"} =>
      /\ DOMAIN all_profiles =
           {u \in AllUrns : \E j \in 1..idx : Defines(Snapshot(j), u)}
      /\ \A u \in DOMAIN all_profiles :
           \E j \in 1..idx : \E n \in 1..Len(SideTable(Snapshot(j))) :
             /\ DefinesAt(Snapshot(j), n, u)
             /\ all_profiles[u] = SideTable(Snapshot(j))[n]
             /\ \A m \in (n + 1)..Len(SideTable(Snapshot(j))) :
                  ~DefinesAt(Snapshot(j), m, u)
             /\ \A k \in (j + 1)..idx : ~Defines(Snapshot(k), u)

\* a profile defined by the first snapshot and redefined by a later one
C2_Witness ==
    /\ pc = "done"
    /\ idx = 3
    /\ Snapshot(1) = SnapA /\ Snapshot(2) = SnapB /\ Snapshot(3) = SnapEmpty
    /\ all_profiles[Str("urn:1")] = P1b
    /\ Str("urn:2") \in DOMAIN all_profiles

----------------------------------------------------------------------------
(* C3 *)

\* the page index a file name carries: int() of the digits between the
\* prefix and the suffix
RECURSIVE Value(_)
Value(ds) == IF ds = << >> THEN 0
             ELSE 10 * Value(SubSeq(ds, 1, Len(ds) - 1)) + (ds[Len(ds)] - 48)

PageIndex(name) ==
    Value(SubSeq(CodePoints(name), Len(Prefix) + 1,
                 Len(CodePoints(name)) - Len(Suffix)))

\* C3: the snapshot files the Reducer has handled so far were handled in
\* ascending page index.
C3_NumericPageOrder ==
    \A a, b \in 1..idx :
        a < b => PageIndex(page_files[a]) < PageIndex(page_files[b])

----------------------------------------------------------------------------
(* C6 *)

\* C6: no snapshot makes the Reducer raise, and the Reducer returns only
\* after every snapshot file has been handled.
C6_ReducerNeverRaises ==
    /\ pc # "raised"
    /\ pc \in {"reduced", "done"} => idx = Len(page_files)

----------------------------------------------------------------------------
(* C7 *)

Terminated == pc \in {"done", "raised"}

TotalElements ==
    SumTo(Len(page_files),
          [n \in 1..Len(page_files) |-> CountElements(Snapshot(n))])

\* C7: a finished run has reported "no input found" exactly when there was
\* no snapshot file, and reports "no rows produced", without the other
\* message and without success, when files exist and hold no element.
C7_DistinctOutcomes ==
    Terminated =>
      /\ NoFilesMessage(variant) \in log <=> DOMAIN files = {}
      /\ (DOMAIN files # {} /\ TotalElements = 0) =>
            /\ pc = "done"
            /\ "No data found to process" \in log
            /\ "Success" \notin log

----------------------------------------------------------------------------
(* C8 *)

\* C8: as long as the Reducer has produced no row the output file is as it
\* was before the run, and write_csv given no rows returns False and leaves
\* the file alone.
C8_NoOutputWithoutRows ==
    /\ all_rows = << >> => csv = csv0
    /\ \A io \in IOOutcomes :
         /\ write_csv(csv, << >>, io)[1] = FALSE
         /\ write_csv(csv, << >>, io)[2] = csv

\* a finished run over existing snapshots that produced no row, with an
\* output file of an earlier run in place
C8_Witness ==
    /\ pc = "done"
    /\ DOMAIN files # {}
    /\ all_rows = << >>
    /\ csv0 = StaleFile
    /\ "No data found to process" \in log

----------------------------------------------------------------------------
(* C10 *)

UrlPrefix == "https://www.linkedin.com/in/"

\* the element refers to a profile by a non-empty string
HasReference(e) ==
    /\ e.t = "dict"
    /\ "followerV2" \in DOMAIN e.d
    /\ e.d["followerV2"].t = "dict"
    /\ "*profile" \in DOMAIN e.d["followerV2"].d
    /\ e.d["followerV2"].d["*profile"].t = "str"
    /\ e.d["followerV2"].d["*profile"].v # ""

Reference(e) == e.d["followerV2"].d["*profile"]

\* every element of the snapshot refers to a profile of its own side-table
Closed(content) ==
    /\ ElementsOf(content) # << >>
    /\ \A n \in 1..Len(ElementsOf(content)) :
         /\ HasReference(ElementsOf(content)[n])
         /\ Defines(content, Reference(ElementsOf(content)[n]))

\* rows appended before the snapshot in position j
Offset(j) == SumTo(j - 1, [n \in 1..(j - 1) |-> CountWellFormed(Snapshot(n))])

\* C10: in every output row linkedinUrl is empty exactly when
\* publicIdentifier is empty or null, and is otherwise
\* "https://www.linkedin.com/in/" + publicIdentifier + "/"; and for a
\* snapshot whose elements all refer to profiles of its own side-table, the
\* row of each element whose profile has a non-empty public identifier has
\* a non-empty URL.
C10_UrlFollowsPublicIdentifier ==
    /\ \A n \in 1..Len(all_rows) :
         LET row == all_rows[n]
         IN  /\ row["linkedinUrl"] = Str("")
                  <=> row["publicIdentifier"] \in {Str(""), Null}
             /\ row["publicIdentifier"] \notin {Str(""), Null} =>
                  row["linkedinUrl"] =
                     Str(UrlPrefix \o row["publicIdentifier"].v \o "/")
    /\ \A j \in 1..idx : Closed(Snapshot(j)) =>
         \A n \in 1..Len(ElementsOf(Snapshot(j))) :
           \A m \in 1..Len(SideTable(Snapshot(j))) :
             LET entry == SideTable(Snapshot(j))[m]
             IN  (/\ DefinesAt(Snapshot(j), m,
                               Reference(ElementsOf(Snapshot(j))[n]))
                  /\ \A k \in (m + 1)..Len(SideTable(Snapshot(j))) :
                        ~DefinesAt(Snapshot(j), k,
                                   Reference(ElementsOf(Snapshot(j))[n]))
                  /\ entry.d["publicIdentifier"] \notin {Str(""), Null})
                 => /\ all_rows[Offset(j) + n]["linkedinUrl"] # Str("")
                    /\ all_rows[Offset(j) + n]["publicIdentifier"]
                         = entry.d["publicIdentifier"]

\* a finished run with a row that has a URL, a row whose profile has an
\* empty public identifier, and a row whose profile is unknown
C10_Witness ==
    /\ pc = "done"
    /\ Len(page_files) = 2
    /\ Snapshot(1) = SnapA /\ Snapshot(2) = SnapC
    /\ all_rows[1]["linkedinUrl"] = Str("https://www.linkedin.com/in/alice/")
    /\ all_rows[2]["publicIdentifier"] = Str("")
    /\ all_rows[2]["linkedinUrl"] = Str("")
    /\ all_rows[3]["linkedinUrl"] = Str("")

----------------------------------------------------------------------------
(* C4 *)

Returned(fn) == pc = "returned" /\ input.fn = fn

\* C4: in both scripts, for an element that refers to a profile absent from
\* the mapping, the row has empty firstName, lastName, headline,
\* publicIdentifier and linkedinUrl, and its entityUrn is the element's own,
\* non-empty identifier.
C4_MissingProfileRow ==
    (/\ Returned("build_follower_row")
     /\ HasReference(input.element)
     /\ Reference(input.element) \notin DOMAIN input.profile_map
     /\ "entityUrn" \in DOMAIN input.element.d
     /\ input.element.d["entityUrn"] # Str(""))
    => /\ DOMAIN output # {}
       /\ \A k \in {"firstName", "lastName", "headline", "publicIdentifier",
                    "linkedinUrl"} : output[k] = Str("")
       /\ output["entityUrn"] = input.element.d["entityUrn"]

----------------------------------------------------------------------------
(* C5 *)

IsDictWith(x, k) == x.t = "dict" /\ k \in DOMAIN x.d

\* the objects at the three depths, deepest first, those that exist
DepthObjects(page_data) ==
    (IF IsDictWith(page_data, "data")
        /\ IsDictWith(page_data.d["data"], "data")
     THEN <<page_data.d["data"].d["data"]>> ELSE << >>)
    \o (IF IsDictWith(page_data, "data")
        THEN <<page_data.d["data"]>> ELSE << >>)
    \o <<page_data>>

RECURSIVE FirstWithContainer(_)
FirstWithContainer(q) ==
    IF q = << >> THEN List(<< >>)
    ELSE IF IsDictWith(Head(q), CONTAINER)
    THEN (IF IsDictWith(Head(q).d[CONTAINER], "elements")
          THEN Head(q).d[CONTAINER].d["elements"]
          ELSE List(<< >>))
    ELSE FirstWithContainer(Tail(q))

\* a payload of the expected types: objects under "data", and under the
\* container key an object that has no elements or a list of them
WellTypedObject(x) ==
    /\ x.t = "dict"
    /\ CONTAINER \in DOMAIN x.d =>
         /\ x.d[CONTAINER].t = "dict"
         /\ "elements" \in DOMAIN x.d[CONTAINER].d =>
              x.d[CONTAINER].d["elements"].t = "list"

WellTypedPage(page_data) ==
    \A n \in 1..Len(DepthObjects(page_data)) :
        WellTypedObject(DepthObjects(page_data)[n])

\* C5: for a payload of the expected types extract_elements_from_page
\* returns the elements of the first of data.data, data, top level whose
\* object holds the container, and an empty sequence only if none holds it
\* or the container has no elements.
C5_FirstDepthWithContainer ==
    (Returned("extract_elements_from_page") /\ WellTypedPage(input.page_data))
        => output = FirstWithContainer(DepthObjects(input.page_data))

----------------------------------------------------------------------------
(* C9 *)

\* the element's followedAt, None when the element has none
FollowedAt(e) ==
    IF IsDictWith(e, "followedAt") THEN e.d["followedAt"] ELSE Null

\* text and accessibilityText as the claim gives them, `empty` being the
\* values that count as empty
NormalizedAs(row, fa, empty) ==
    IF fa.t = "dict"
    THEN /\ row["followedAt.text"] =
              (IF "text" \in DOMAIN fa.d THEN fa.d["text"] ELSE Str(""))
         /\ row["followedAt.accessibilityText"] =
              (IF "accessibilityText" \in DOMAIN fa.d
               THEN fa.d["accessibilityText"] ELSE Str(""))
    ELSE IF fa \in empty
    THEN /\ row["followedAt.text"] = Str("")
         /\ row["followedAt.accessibilityText"] = Str("")
    ELSE /\ row["followedAt.text"] = Str(StrOf(fa))
         /\ row["followedAt.accessibilityText"] = Str("")

\* C9 (as claimed): for every element the row carries the normalized
\* followedAt, a missing, null or empty value giving two empty strings and
\* any other primitive its string form.
C9_NormalizedForEveryElement ==
    Returned("build_follower_row") =>
        /\ DOMAIN output # {}
        /\ NormalizedAs(output, FollowedAt(input.element),
                        {Null, Str(""), List(<< >>)})

\* C9 (amended): for every element from which a row is built, the row
\* carries the normalized followedAt, where the values that give two empty
\* strings are the missing one and the falsy ones: null, "", 0, false, [].
C9_NormalizedWhenRowBuilt ==
    (Returned("build_follower_row") /\ DOMAIN output # {}) =>
        /\ NormalizedAs(output, FollowedAt(input.element),
                        {Null, Str(""), Num("0"), Bool("false"), List(<< >>)})
        /\ FollowedAt(input.element) = Num("5") =>
             output["followedAt.text"] = Str("5")
        /\ FollowedAt(input.element) = Bool("true") =>
             output["followedAt.text"] = Str("True")

\* a row built from an element whose followedAt is the number 0
C9_Witness ==
    /\ Returned("build_follower_row")
    /\ DOMAIN output # {}
    /\ FollowedAt(input.element) = Num("0")
    /\ output["followedAt.text"] = Str("")
    /\ output["followedAt.accessibilityText"] = Str("")

----------------------------------------------------------------------------
(* C11 *)

\* some snapshot in positions 1..j defines the profile
KnownUpTo(j, urn) == \E i \in 1..j : Defines(Snapshot(i), urn)

\* the last entry for the profile in the last snapshot of 1..j that has one
LastEntry(j, urn) ==
    LET i == CHOOSE i \in 1..j :
                 /\ Defines(Snapshot(i), urn)
                 /\ \A k \in (i + 1)..j : ~Defines(Snapshot(k), urn)
        n == CHOOSE n \in 1..Len(SideTable(Snapshot(i))) :
                 /\ DefinesAt(Snapshot(i), n, urn)
                 /\ \A m \in (n + 1)..Len(SideTable(Snapshot(i))) :
                        ~DefinesAt(Snapshot(i), m, urn)
    IN  SideTable(Snapshot(i))[n]

\* the cumulative mapping of the snapshots in positions 1..j, stated from
\* the files alone
Cumulative(j) ==
    [u \in {u \in AllUrns : KnownUpTo(j, u)} |-> LastEntry(j, u)]

\* the position among the rows of its snapshot of the element in place n
Rank(content, n) ==
    Cardinality({m \in 1..n : WellFormed(ElementsOf(content)[m])})

ProfileFields ==
    {"firstName", "lastName", "headline", "publicIdentifier", "linkedinUrl"}

\* the rows of the snapshots handled so far are those built from the
\* mapping of snapshots 1..j, j being the position of the row's snapshot
RowsFromPrefix ==
    \A j \in 1..idx :
      /\ SubSeq(all_rows, Offset(j) + 1,
                Offset(j) + CountWellFormed(Snapshot(j)))
           = BuildRows(variant, ElementsOf(Snapshot(j)), Cumulative(j))
      /\ \A n \in 1..Len(ElementsOf(Snapshot(j))) :
           LET e == ElementsOf(Snapshot(j))[n]
           IN  (HasReference(e) /\ ~KnownUpTo(j, Reference(e))) =>
                 \A k \in ProfileFields :
                   all_rows[Offset(j) + Rank(Snapshot(j), n)][k] = Str("")

\* a step only appends: every row already in the output stays as it is
RowsOnlyAppended ==
    /\ Len(all_rows') >= Len(all_rows)
    /\ SubSeq(all_rows', 1, Len(all_rows)) = all_rows

\* C11: the row of an element of the k-th processed snapshot is the row
\* built from the cumulative mapping of snapshots 1..k; a profile defined
\* only by a later snapshot leaves the row's profile fields empty; and no
\* step, a later overwrite of a profile included, changes a row that is
\* already in the output.
C11_RowsDependOnPrefix ==
    []RowsFromPrefix /\ [][RowsOnlyAppended]_vars

\* a finished run whose first snapshot refers to a profile that only the
\* second defines, and whose second snapshot overwrites the profile that a
\* row of the first was built from
C11_Witness ==
    /\ pc = "done"
    /\ idx = 2
    /\ Snapshot(1) = SnapB /\ Snapshot(2) = SnapD
    /\ Len(all_rows) = 2
    /\ all_profiles[Str("urn:1")] = P1a
    /\ all_rows[1]["firstName"] = Str("Alicia")
    /\ all_profiles[Str("urn:3")] = P3
    /\ all_rows[2]["headline"] = Str("")

====
